---- MODULE Spec2Model ----
(***************************************************************************)
(* Model of src/src/App.js: the React component App, which probes the      *)
(* session once at mount, keeps one WebSocket in the ref ws while          *)
(* isAuthenticated is true, and asks the backend over HTTP to push data.   *)
(*                                                                         *)
(* One action is one browser task: a fetch completion, a click handler, a  *)
(* WebSocket event handler.  A state update commits a render, and the      *)
(* effect on [isAuthenticated] (cleanup of the previous run, then the      *)
(* body) runs as part of the action that changed isAuthenticated: React    *)
(* runs it before anything else of the component can run.  The WebSocket   *)
(* object follows the WHATWG WebSockets standard: close() on a CONNECTING  *)
(* socket fails the connection, message events are delivered only while    *)
(* OPEN, and the task that closes a connection sets readyState to CLOSED   *)
(* and then fires error (when the connection failed) and close.            *)
(***************************************************************************)
EXTENDS Naturals, Sequences, FiniteSets, TLC

\* ---------------------------------------------------------------- bounds
MaxLoads == 2        \* page loads (lifetimes of the component) explored
MaxSockets == 2      \* WebSocket objects one page lifetime may construct
MaxInflight == 2     \* trigger requests in flight at once

\* ------------------------------------------------------- string literals
MsgConnected == "Connected to server. Ready to fetch data."
MsgDataReceived == "Data received!"
MsgDisconnected == "Disconnected from server."
MsgRequesting == "Requesting data from eWeLink..."
ErrServerPrefix == "Error from server: "
ErrWebSocket == "A WebSocket error occurred. Connection may be lost."
ErrProbeStatus == "Failed to check authentication status."
ErrProbeConnect == "Cannot connect to the backend. Is it running?"
ErrTriggerFallback == "Failed to trigger data fetch."
ErrTriggerSend == "Failed to send data request to backend."

\* ------------------------------------------------------ JavaScript values
\* A value the error state or a response field can hold.  t is the type,
\* s the characters of a string, error the "error" property of an object
\* (Absent when the object has no such property).
Absent == "<absent>"
Undef == [t |-> "undefined", s |-> "", error |-> Absent]
Null == [t |-> "null", s |-> "", error |-> Absent]
Str(x) == [t |-> "string", s |-> x, error |-> Absent]
Obj(e) == [t |-> "object", s |-> "", error |-> e]

\* JavaScript truthiness of a value, and of a property given as a string
\* or Absent.
Truthy(v) == v.t = "object" \/ (v.t = "string" /\ v.s # "")
TruthyProp(p) == p # Absent /\ p # ""

\* a || b
Or(a, b) == IF Truthy(a) THEN a ELSE b

\* An inbound frame after JSON.parse: an object with the properties error,
\* details and temp, each a string or Absent.
EmptyMsg == [error |-> Absent, details |-> Absent, temp |-> Absent]
Messages ==
  { [error |-> Absent, details |-> Absent, temp |-> "21"],
    [error |-> "E1", details |-> "bad token", temp |-> Absent],
    [error |-> "E1", details |-> Absent, temp |-> Absent],
    [error |-> "E1", details |-> "", temp |-> Absent],
    [error |-> "", details |-> "bad token", temp |-> Absent] }

\* The userData state: null, or the parsed frame.
NoData == [t |-> "null", v |-> EmptyMsg]
Data(m) == [t |-> "object", v |-> m]

\* The detail property of a response body.
Details ==
  { Undef, Str("forbidden"), Str(""),
    Obj("rate limited"), Obj(Absent), Obj("") }

\* A response body: text that is not JSON, the JSON value null, or a JSON
\* object with the given detail.
Bodies ==
  { [json |-> "invalid", detail |-> Undef],
    [json |-> "null", detail |-> Undef] }
  \cup { [json |-> "object", detail |-> d] : d \in Details }

\* How a trigger fetch ends: the transport fails, or a response arrives
\* with response.ok true or false and some body.
TriggerOutcomes ==
  { [kind |-> "network", body |-> [json |-> "invalid", detail |-> Undef]] }
  \cup { [kind |-> k, body |-> b] : k \in {"ok", "notok"}, b \in Bodies }

\* How the probe fetch ends: the transport fails, the status is not a
\* success, the body of a success is not JSON, or it carries authenticated.
ProbeOutcomes == {"network", "notok", "badjson", "true", "false"}

NoOutcome == [kind |-> "none", body |-> [json |-> "invalid", detail |-> Undef]]

\* ------------------------------------------------------------------ state
VARIABLES
  page,            \* "fresh" (constructed), "live" (mounted), "leaving"
  loads,           \* page loads so far
  isAuthenticated, userData, loading, error, statusMessage,
  wsCurrent,       \* ws.current: 0 for null, else an index of sockets
  sockets,         \* the WebSocket objects this page constructed
  task,            \* handlers the running close task has still to call
  probe,           \* "idle", "inflight", then how the probe fetch ended
  triggers,        \* trigger fetches in flight
  fetchEnabled,    \* the Fetch button as last rendered: not disabled
  created,         \* history: WebSockets constructed, over all loads
  rises,           \* history: false->true changes of isAuthenticated
  probeIssued,     \* history: probe fetches issued by this page
  atLogout,        \* history: the state handleLogout found
  errorYounger,    \* history: trigger fetches in flight that were issued
                   \* after the one whose completion set the error shown
  last             \* history: the handler that ran last, and its input

vars ==
  << page, loads, isAuthenticated, userData, loading, error, statusMessage,
     wsCurrent, sockets, task, probe, triggers, fetchEnabled,
     created, rises, probeIssued, atLogout, errorYounger, last >>

NoLogout == [done |-> FALSE, ws |-> 0, readyState |-> "none",
             userData |-> NoData, error |-> Null]
Last(op, c, m, o) == [op |-> op, sock |-> c, msg |-> m, out |-> o]

\* ------------------------------------------------------------- WebSocket
NewSocket == [readyState |-> "CONNECTING", failed |-> FALSE,
              opened |-> FALSE, closeRequests |-> 0,
              errorEvents |-> 0, closeEvents |-> 0]

\* WebSocket.close(): nothing when CLOSING or CLOSED; otherwise the socket
\* becomes CLOSING, and a connection that was not yet established fails.
SocketClose(socks, c) ==
  IF socks[c].readyState \in {"CLOSING", "CLOSED"}
  THEN [socks EXCEPT ![c].closeRequests = @ + 1]
  ELSE [socks EXCEPT ![c].readyState = "CLOSING",
                     ![c].failed = (socks[c].readyState = "CONNECTING"),
                     ![c].closeRequests = @ + 1]

\* The ref and the sockets together, as the effect reads and writes them.
Heap == [ws |-> wsCurrent, socks |-> sockets]

\* The effect body with the else branch left out: nothing closes the
\* socket when isAuthenticated is false.
EffectSetupNoClose(auth, h) ==
  IF auth /\ h.ws = 0
  THEN [ws |-> Len(h.socks) + 1, socks |-> Append(h.socks, NewSocket)]
  ELSE h

\* The effect body with the test of line 46 inverted: if (ws.current).
EffectSetupInvertedGuard(auth, h) ==
  IF auth
  THEN IF h.ws # 0
       THEN [ws |-> Len(h.socks) + 1, socks |-> Append(h.socks, NewSocket)]
       ELSE h
  ELSE IF h.ws # 0
       THEN [h EXCEPT !.socks = SocketClose(h.socks, h.ws)]
       ELSE h

\* The effect body with the else branch closing only an OPEN socket, as
\* the cleanup does.
EffectSetupClosesOpenOnly(auth, h) ==
  IF auth
  THEN IF h.ws = 0
       THEN [ws |-> Len(h.socks) + 1, socks |-> Append(h.socks, NewSocket)]
       ELSE h
  ELSE IF h.ws # 0 /\ h.socks[h.ws].readyState = "OPEN"
       THEN [h EXCEPT !.socks = SocketClose(h.socks, h.ws)]
       ELSE h

\* Lines 44-83: the body of the effect on [isAuthenticated].
EffectSetup(auth, h) ==
  IF auth
  THEN IF h.ws = 0
       THEN [ws |-> Len(h.socks) + 1, socks |-> Append(h.socks, NewSocket)]
       ELSE h
  ELSE IF h.ws # 0
       THEN [h EXCEPT !.socks = SocketClose(h.socks, h.ws)]
       ELSE h

\* An effect that returns no cleanup.
EffectCleanupNone(h) == h

\* A cleanup that closes whatever socket the ref holds, as the else branch
\* of the body does.
EffectCleanupAny(h) ==
  IF h.ws # 0
  THEN [h EXCEPT !.socks = SocketClose(h.socks, h.ws)]
  ELSE h

\* Lines 87-92: the cleanup the effect returns.
EffectCleanup(h) ==
  IF h.ws # 0 /\ h.socks[h.ws].readyState = "OPEN"
  THEN [h EXCEPT !.socks = SocketClose(h.socks, h.ws)]
  ELSE h

\* The effect as React runs it when isAuthenticated changed to auth.
RunEffect(auth, h) == EffectSetup(auth, EffectCleanup(h))

\* Line 149: the Fetch button is enabled when rendered with an OPEN socket
\* in the ref.
FetchReady(ws, socks) == ws # 0 /\ socks[ws].readyState = "OPEN"

\* A render happens when some state changed; the button keeps what the
\* last render gave it otherwise.
Render(changed, ws, socks) ==
  IF changed THEN FetchReady(ws, socks) ELSE fetchEnabled

Alive == page \in {"live", "leaving"}
Idle == Alive /\ task = << >>

\* ------------------------------------------------------------------- Init
Init ==
  /\ page = "fresh"
  /\ loads = 1
  /\ isAuthenticated = FALSE
  /\ userData = NoData
  /\ loading = TRUE
  /\ error = Null
  /\ statusMessage = ""
  /\ wsCurrent = 0
  /\ sockets = << >>
  /\ task = << >>
  /\ probe = "idle"
  /\ triggers = 0
  /\ fetchEnabled = FALSE
  /\ created = 0
  /\ rises = 0
  /\ probeIssued = 0
  /\ atLogout = NoLogout
  /\ errorYounger = 0
  /\ last = Last("init", 0, EmptyMsg, NoOutcome)

\* Lines 23-40 and 43-93: the first run of both effects.  The probe fetch
\* is issued; the channel effect runs with isAuthenticated false.
Mount ==
  /\ page = "fresh"
  /\ page' = "live"
  /\ probe' = "inflight"
  /\ probeIssued' = probeIssued + 1
  /\ LET h == EffectSetup(isAuthenticated, Heap)
     IN /\ wsCurrent' = h.ws
        /\ sockets' = h.socks
  /\ last' = Last("mount", 0, EmptyMsg, NoOutcome)
  /\ UNCHANGED << loads, isAuthenticated, userData, loading, error,
                  statusMessage, task, triggers, fetchEnabled, created,
                  rises, atLogout, errorYounger >>

\* checkAuthStatus with setLoading(false) at the end of the try block
\* instead of in a finally: a thrown fetch or json() skips it.
CheckAuthStatusNoFinally(out) ==
  [ isAuthenticated |-> CASE out = "true" -> TRUE
                          [] out = "false" -> FALSE
                          [] OTHER -> isAuthenticated,
    error |-> CASE out \in {"true", "false"} -> error
                [] out = "notok" -> Str(ErrProbeStatus)
                [] OTHER -> Str(ErrProbeConnect),
    loading |-> out \in {"network", "badjson"} ]

\* Lines 24-38: what checkAuthStatus sets when its fetch ends with out.
\* response.json() of a body that is not JSON throws into the catch.
CheckAuthStatus(out) ==
  [ isAuthenticated |-> CASE out = "true" -> TRUE
                          [] out = "false" -> FALSE
                          [] OTHER -> isAuthenticated,
    error |-> CASE out \in {"true", "false"} -> error
                [] out = "notok" -> Str(ErrProbeStatus)
                [] OTHER -> Str(ErrProbeConnect),
    loading |-> FALSE ]

\* The probe fetch completes; a change of isAuthenticated runs the effect.
ProbeDone(out) ==
  /\ Idle
  /\ probe = "inflight"
  /\ LET r == CheckAuthStatus(out)
         flipped == r.isAuthenticated # isAuthenticated
         h == IF flipped THEN RunEffect(r.isAuthenticated, Heap) ELSE Heap
     IN /\ Len(h.socks) <= MaxSockets
        /\ probe' = out
        /\ isAuthenticated' = r.isAuthenticated
        /\ error' = r.error
        /\ loading' = r.loading
        /\ fetchEnabled' = Render(TRUE, wsCurrent, sockets)
        /\ wsCurrent' = h.ws
        /\ sockets' = h.socks
        /\ rises' = IF r.isAuthenticated /\ ~isAuthenticated
                    THEN rises + 1 ELSE rises
        /\ created' = created + (Len(h.socks) - Len(sockets))
  /\ last' = Last("probe", 0, EmptyMsg, [NoOutcome EXCEPT !.kind = out])
  /\ UNCHANGED << page, loads, userData, statusMessage, task, triggers,
                  probeIssued, atLogout, errorYounger >>

\* Lines 96-98: handleLogin, from the login view.
HandleLogin ==
  /\ Idle
  /\ ~loading /\ ~isAuthenticated
  /\ page' = "leaving"
  /\ last' = Last("login", 0, EmptyMsg, NoOutcome)
  /\ UNCHANGED << loads, isAuthenticated, userData, loading, error,
                  statusMessage, wsCurrent, sockets, task, probe, triggers,
                  fetchEnabled, created, rises, probeIssued, atLogout,
                  errorYounger >>

\* handleLogout without setUserData(null).
HandleLogoutKeepsData == [isAuthenticated |-> FALSE, userData |-> userData]

\* Lines 100-104: what handleLogout sets.
HandleLogoutState == [isAuthenticated |-> FALSE, userData |-> NoData]

\* handleLogout, from the control panel; the change of isAuthenticated
\* runs the effect (cleanup, then the body with false).
HandleLogout ==
  /\ Idle
  /\ ~loading /\ isAuthenticated
  /\ LET r == HandleLogoutState
         h == IF r.isAuthenticated # isAuthenticated
              THEN RunEffect(r.isAuthenticated, Heap) ELSE Heap
     IN /\ Len(h.socks) <= MaxSockets
        /\ isAuthenticated' = r.isAuthenticated
        /\ userData' = r.userData
        /\ fetchEnabled' = Render(TRUE, wsCurrent, sockets)
        /\ wsCurrent' = h.ws
        /\ sockets' = h.socks
        /\ created' = created + (Len(h.socks) - Len(sockets))
  /\ atLogout' = [done |-> TRUE, ws |-> wsCurrent,
                  readyState |-> IF wsCurrent = 0 THEN "none"
                                 ELSE sockets[wsCurrent].readyState,
                  userData |-> userData, error |-> error]
  /\ page' = "leaving"
  /\ last' = Last("logout", wsCurrent, EmptyMsg, NoOutcome)
  /\ UNCHANGED << loads, loading, error, statusMessage, task, probe,
                  triggers, rises, probeIssued, errorYounger >>

\* Lines 106-109: what handleGetData sets before it awaits the fetch.
HandleGetDataStart ==
  [statusMessage |-> MsgRequesting, userData |-> NoData, error |-> Null]

\* handleGetData, from the Fetch button as it was last rendered.
HandleGetData ==
  /\ Idle
  /\ ~loading /\ isAuthenticated /\ fetchEnabled
  /\ triggers < MaxInflight
  /\ LET r == HandleGetDataStart
     IN /\ statusMessage' = r.statusMessage
        /\ userData' = r.userData
        /\ error' = r.error
        /\ fetchEnabled' =
             Render(<< r.statusMessage, r.userData, r.error >>
                      # << statusMessage, userData, error >>,
                    wsCurrent, sockets)
  /\ triggers' = triggers + 1
  /\ errorYounger' = 0
  /\ last' = Last("getData", 0, EmptyMsg, NoOutcome)
  /\ UNCHANGED << page, loads, isAuthenticated, loading, wsCurrent, sockets,
                  task, probe, created, rises, probeIssued, atLogout >>

\* result.detail?.error of line 118.
DetailError(d) ==
  IF d.t = "object" /\ d.error # Absent THEN Str(d.error) ELSE Undef

\* Line 118: the value given to setError for a parsed body.
RejectedError(body) ==
  Or(Or(DetailError(body.detail), body.detail), Str(ErrTriggerFallback))

\* Lines 113-124: which path the rest of handleGetData takes.  The fetch
\* rejects on a transport failure, response.json() rejects when the body
\* is not JSON, and result.detail throws when the body is the value null;
\* all three land in the catch.  The body is parsed before response.ok is
\* looked at.
TriggerPath(out) ==
  CASE out.kind = "network" -> "catch"
    [] out.body.json = "invalid" -> "catch"
    [] out.kind = "ok" -> "accepted"
    [] out.body.json = "null" -> "catch"
    [] OTHER -> "rejected"

\* What handleGetData sets after the fetch ended with out.
HandleGetDataResult(out) ==
  CASE TriggerPath(out) = "catch" ->
         [error |-> Str(ErrTriggerSend), statusMessage |-> ""]
    [] TriggerPath(out) = "rejected" ->
         [error |-> RejectedError(out.body), statusMessage |-> ""]
    [] OTHER -> [error |-> error, statusMessage |-> statusMessage]

\* A trigger fetch completes: the k-th oldest of those in flight.
GetDataDone(out) ==
  /\ Idle
  /\ triggers > 0
  /\ \E k \in 1..triggers :
       errorYounger' =
         CASE TriggerPath(out) # "accepted" -> triggers - k
           [] k > triggers - errorYounger -> errorYounger - 1
           [] OTHER -> errorYounger
  /\ LET r == HandleGetDataResult(out)
     IN /\ error' = r.error
        /\ statusMessage' = r.statusMessage
        /\ fetchEnabled' =
             Render(<< r.error, r.statusMessage >> # << error, statusMessage >>,
                    wsCurrent, sockets)
  /\ triggers' = triggers - 1
  /\ last' = Last("getDataDone", 0, EmptyMsg, out)
  /\ UNCHANGED << page, loads, isAuthenticated, userData, loading, wsCurrent,
                  sockets, task, probe, created, rises, probeIssued,
                  atLogout >>

\* Lines 49-52: the connection is established and onopen runs.
WsOnOpen(c) ==
  /\ Idle
  /\ c \in 1..Len(sockets)
  /\ sockets[c].readyState = "CONNECTING"
  /\ sockets' = [sockets EXCEPT ![c].readyState = "OPEN", ![c].opened = TRUE]
  /\ statusMessage' = MsgConnected
  /\ fetchEnabled' = Render(statusMessage' # statusMessage, wsCurrent, sockets')
  /\ last' = Last("open", c, EmptyMsg, NoOutcome)
  /\ UNCHANGED << page, loads, isAuthenticated, userData, loading, error,
                  wsCurrent, task, probe, triggers, created, rises,
                  probeIssued, atLogout, errorYounger >>

\* onmessage with the operands of line 58 swapped: data.error || data.details.
OnMessageCodeFirst(m) ==
  IF TruthyProp(m.error)
  THEN [ error |-> Str(ErrServerPrefix \o
                       (IF TruthyProp(m.error) THEN m.error ELSE m.details)),
         userData |-> NoData,
         statusMessage |-> MsgDataReceived ]
  ELSE [ error |-> Null,
         userData |-> Data(m),
         statusMessage |-> MsgDataReceived ]

\* onmessage without line 59: an error frame leaves the data shown.
OnMessageKeepsData(m) ==
  IF TruthyProp(m.error)
  THEN [ error |-> Str(ErrServerPrefix \o
                       (IF TruthyProp(m.details) THEN m.details ELSE m.error)),
         userData |-> userData,
         statusMessage |-> MsgDataReceived ]
  ELSE [ error |-> Null,
         userData |-> Data(m),
         statusMessage |-> MsgDataReceived ]

\* Lines 55-64: what onmessage sets for the parsed frame m.
OnMessageState(m) ==
  IF TruthyProp(m.error)
  THEN [ error |-> Str(ErrServerPrefix \o
                       (IF TruthyProp(m.details) THEN m.details ELSE m.error)),
         userData |-> NoData,
         statusMessage |-> MsgDataReceived ]
  ELSE [ error |-> Null,
         userData |-> Data(m),
         statusMessage |-> MsgDataReceived ]

\* Lines 54-65: a frame arrives on an OPEN socket and onmessage runs.  Every
\* frame parses to a fresh object, so userData always changes.
WsOnMessage(c, m) ==
  /\ Idle
  /\ c \in 1..Len(sockets)
  /\ sockets[c].readyState = "OPEN"
  /\ LET r == OnMessageState(m)
     IN /\ error' = r.error
        /\ userData' = r.userData
        /\ statusMessage' = r.statusMessage
        /\ fetchEnabled' =
             Render(r.userData.t = "object" \/
                      << r.error, r.userData, r.statusMessage >>
                        # << error, userData, statusMessage >>,
                    wsCurrent, sockets)
  /\ errorYounger' = 0
  /\ last' = Last("message", c, m, NoOutcome)
  /\ UNCHANGED << page, loads, isAuthenticated, loading, wsCurrent, sockets,
                  task, probe, triggers, created, rises, probeIssued,
                  atLogout >>

\* The connection of socket c is closed: by the server, by the closing
\* handshake close() began, or by a failure.  readyState becomes CLOSED and
\* the task goes on to fire error (when the connection failed) and close.
\* A connection that closes before it was established has failed.
ConnectionClosed(c, fail) ==
  /\ Idle
  /\ c \in 1..Len(sockets)
  /\ sockets[c].readyState # "CLOSED"
  /\ LET failed == \/ fail
                   \/ sockets[c].failed
                   \/ sockets[c].readyState = "CONNECTING"
     IN /\ sockets' = [sockets EXCEPT ![c].readyState = "CLOSED",
                                      ![c].failed = failed]
        /\ task' = IF failed THEN << << "error", c >>, << "close", c >> >>
                   ELSE << << "close", c >> >>
  /\ last' = Last("connectionClosed", c, EmptyMsg, NoOutcome)
  /\ UNCHANGED << page, loads, isAuthenticated, userData, loading, error,
                  statusMessage, wsCurrent, probe, triggers, fetchEnabled,
                  created, rises, probeIssued, atLogout, errorYounger >>

\* onerror that also opens a new socket into the ref.
OnErrorReconnect(c, h) ==
  [error |-> Str(ErrWebSocket), ws |-> Len(h.socks) + 1,
   socks |-> Append(h.socks, NewSocket)]

\* onerror that also clears the ref, as onclose does.
OnErrorClearsRef(c, h) ==
  [error |-> Str(ErrWebSocket), ws |-> 0, socks |-> h.socks]

\* Lines 67-70: what onerror does to the error, the ref and the sockets.
OnErrorState(c, h) == [error |-> Str(ErrWebSocket), ws |-> h.ws, socks |-> h.socks]

\* onerror runs, inside the task that closed the connection.
WsOnError(c) ==
  /\ Alive
  /\ task # << >> /\ Head(task) = << "error", c >>
  /\ task' = Tail(task)
  /\ LET r == OnErrorState(c, Heap)
     IN /\ Len(r.socks) <= MaxSockets
        /\ error' = r.error
        /\ wsCurrent' = r.ws
        /\ sockets' = [r.socks EXCEPT ![c].errorEvents = @ + 1]
        /\ created' = created + (Len(r.socks) - Len(sockets))
        /\ fetchEnabled' = Render(error' # error, r.ws, r.socks)
  /\ errorYounger' = 0
  /\ last' = Last("error", c, EmptyMsg, NoOutcome)
  /\ UNCHANGED << page, loads, isAuthenticated, userData, loading,
                  statusMessage, probe, triggers, rises, probeIssued,
                  atLogout >>

\* onclose that opens a new socket into the ref instead of clearing it.
OnCloseReconnect(c, h) ==
  [statusMessage |-> MsgDisconnected, ws |-> Len(h.socks) + 1,
   socks |-> Append(h.socks, NewSocket)]

\* onclose that clears the ref without setting the status: nothing renders.
OnCloseSilent(c, h) ==
  [statusMessage |-> statusMessage, ws |-> 0, socks |-> h.socks]

\* onclose without line 75: the closed socket stays in the ref.
OnCloseKeepsRef(c, h) ==
  [statusMessage |-> MsgDisconnected, ws |-> h.ws, socks |-> h.socks]

\* Lines 72-76: what onclose does to the status, the ref and the sockets.
\* It clears ws.current, whichever socket the event is of.
OnCloseState(c, h) ==
  [statusMessage |-> MsgDisconnected, ws |-> 0, socks |-> h.socks]

\* onclose runs, last in the task that closed the connection.
WsOnClose(c) ==
  /\ Alive
  /\ task # << >> /\ Head(task) = << "close", c >>
  /\ task' = Tail(task)
  /\ LET r == OnCloseState(c, Heap)
     IN /\ Len(r.socks) <= MaxSockets
        /\ statusMessage' = r.statusMessage
        /\ wsCurrent' = r.ws
        /\ sockets' = [r.socks EXCEPT ![c].closeEvents = @ + 1]
        /\ created' = created + (Len(r.socks) - Len(sockets))
        /\ fetchEnabled' = Render(statusMessage' # statusMessage, r.ws, r.socks)
  /\ last' = Last("close", c, EmptyMsg, NoOutcome)
  /\ UNCHANGED << page, loads, isAuthenticated, userData, loading, error,
                  probe, triggers, rises, probeIssued, atLogout,
                  errorYounger >>

\* The page is left (the navigation handleLogin or handleLogout asked for,
\* or a reload) and loaded again: a new component, new state, no sockets.
PageLoad ==
  /\ Idle
  /\ loads < MaxLoads
  /\ page' = "fresh"
  /\ loads' = loads + 1
  /\ isAuthenticated' = FALSE
  /\ userData' = NoData
  /\ loading' = TRUE
  /\ error' = Null
  /\ statusMessage' = ""
  /\ wsCurrent' = 0
  /\ sockets' = << >>
  /\ task' = << >>
  /\ probe' = "idle"
  /\ triggers' = 0
  /\ fetchEnabled' = FALSE
  /\ probeIssued' = 0
  /\ atLogout' = NoLogout
  /\ errorYounger' = 0
  /\ last' = Last("init", 0, EmptyMsg, NoOutcome)
  /\ UNCHANGED << created, rises >>

Next ==
  \/ Mount
  \/ \E out \in ProbeOutcomes : ProbeDone(out)
  \/ HandleLogin
  \/ HandleLogout
  \/ HandleGetData
  \/ \E out \in TriggerOutcomes : GetDataDone(out)
  \/ \E c \in 1..MaxSockets : WsOnOpen(c)
  \/ \E c \in 1..MaxSockets, m \in Messages : WsOnMessage(c, m)
  \/ \E c \in 1..MaxSockets, fail \in BOOLEAN : ConnectionClosed(c, fail)
  \/ \E c \in 1..MaxSockets : WsOnError(c)
  \/ \E c \in 1..MaxSockets : WsOnClose(c)
  \/ PageLoad

Spec == Init /\ [][Next]_vars

\* ----------------------------------------------------------------- claims
Socks == 1..Len(sockets)
Live(c) == sockets[c].readyState \in {"CONNECTING", "OPEN"}

\* ws.current holds a socket that is Connecting or Open.
HandleLive == wsCurrent # 0 /\ Live(wsCurrent)

\* No socket of this page was asked to close, or was closed.
NoCloseSeen ==
  \A c \in Socks : /\ sockets[c].closeRequests = 0
                    /\ sockets[c].closeEvents = 0
                    /\ sockets[c].readyState \notin {"CLOSING", "CLOSED"}

\* Some socket was asked to close, or was closed, and its close event has
\* not been handled yet.
CloseOutstanding ==
  \E c \in Socks : /\ sockets[c].closeEvents = 0
                    /\ \/ sockets[c].closeRequests > 0
                       \/ sockets[c].readyState \in {"CLOSING", "CLOSED"}

\* C1: in every state, ws.current holds a Connecting or Open socket exactly
\* when isAuthenticated is true and no socket was asked to close or was
\* closed; and when isAuthenticated is false and no close is outstanding,
\* ws.current is null.
C1_HandleIffAuthenticated ==
  /\ HandleLive <=> (isAuthenticated /\ NoCloseSeen)
  /\ (~isAuthenticated /\ ~CloseOutstanding) => wsCurrent = 0

\* A socket is Open in the ref while authenticated.
C1_Witness ==
  /\ isAuthenticated /\ wsCurrent # 0
  /\ sockets[wsCurrent].readyState = "OPEN"

\* C2: the number of WebSockets constructed equals the number of
\* false->true changes of isAuthenticated, over every sequence of probes,
\* logouts, page loads and channel events.
C2_CreatedEqualsRises == created = rises

\* isAuthenticated has risen in two page loads, and each rise constructed
\* one socket.
C2_Witness == rises = 2 /\ created = 2 /\ isAuthenticated /\ HandleLive

\* C3: at most one socket is Connecting or Open at any time, and a
\* WebSocket is constructed only in a step that starts with ws.current
\* null.
C3_AtMostOneLive ==
  /\ [](Cardinality({c \in Socks : Live(c)}) <= 1)
  /\ [][Len(sockets') > Len(sockets) => wsCurrent = 0]_vars

\* One socket is live, held by the ref, after channel events were handled.
C3_Witness ==
  /\ HandleLive /\ Cardinality({c \in Socks : Live(c)}) = 1
  /\ last.op = "message"

\* C4: when handleLogout found the socket still Connecting, that socket is
\* asked to close, never becomes Open, its onopen never runs (the status
\* never reads the connected message), and once its close event is handled
\* ws.current is null.
C4_CloseCancelsOpen ==
  (atLogout.done /\ atLogout.readyState = "CONNECTING") =>
    /\ sockets[atLogout.ws].readyState \in {"CLOSING", "CLOSED"}
    /\ ~sockets[atLogout.ws].opened
    /\ statusMessage # MsgConnected
    /\ sockets[atLogout.ws].closeEvents > 0 => wsCurrent = 0

\* The socket was Connecting at logout and its close event was handled.
C4_Witness ==
  /\ atLogout.done /\ atLogout.readyState = "CONNECTING"
  /\ sockets[atLogout.ws].closeEvents = 1
  /\ wsCurrent = 0

\* C5 as stated: after onmessage, a frame with an error code leaves error
\* equal to its details (its error code when it has no details) and
\* userData null; any other frame leaves userData equal to the frame and
\* error null; the status reads the data-received message.  A frame whose
\* error property is the empty string is read here as the code reads it,
\* as carrying no error code.
C5_Original ==
  last.op = "message" =>
    /\ statusMessage = MsgDataReceived
    /\ IF last.msg.error \notin {Absent, ""}
       THEN /\ userData = NoData
            /\ error = Str(IF last.msg.details # Absent
                            THEN last.msg.details ELSE last.msg.error)
       ELSE /\ userData = Data(last.msg)
            /\ error = Null

\* C5, amended: after onmessage the status reads the data-received message;
\* a frame whose error property is a non-empty string leaves userData null
\* and error equal to "Error from server: " followed by its details (by
\* its error code when details is missing or empty); a frame with no error
\* property, or an empty one, leaves userData equal to the frame and error
\* null.
C5_MessageDiscrimination ==
  last.op = "message" =>
    /\ statusMessage = MsgDataReceived
    /\ last.msg.error \in {Absent, ""} =>
         userData = Data(last.msg) /\ error = Null
    /\ last.msg.error \notin {Absent, ""} =>
         /\ userData = NoData
         /\ error.t = "string"
         /\ error.s = "Error from server: " \o
                        (IF last.msg.details \in {Absent, ""}
                         THEN last.msg.error ELSE last.msg.details)
    /\ (last.msg.error = "E1" /\ last.msg.details = "bad token") =>
         error.s = "Error from server: bad token"
    /\ last.msg.temp = "21" => userData.v.temp = "21" /\ error = Null

\* onmessage has just handled {error: "E1", details: "bad token"} while
\* data was shown.
C5_Witness ==
  /\ last.op = "message"
  /\ last.msg.error = "E1" /\ last.msg.details = "bad token"
  /\ userData = NoData /\ error.t = "string"

\* C6 as stated: handleLogout leaves isAuthenticated false and the socket
\* in the ref asked to close; when the close event is then handled the ref
\* is null and the status reads the disconnected message; userData and
\* error are, after the logout and after that close, what they were just
\* before the logout.
C6_Original ==
  /\ last.op = "logout" =>
       /\ ~isAuthenticated
       /\ atLogout.ws # 0 => sockets[atLogout.ws].closeRequests > 0
       /\ userData = atLogout.userData /\ error = atLogout.error
  /\ (atLogout.done /\ last.op = "close") =>
       /\ wsCurrent = 0 /\ statusMessage = MsgDisconnected
       /\ userData = atLogout.userData /\ error = atLogout.error

\* C6, amended: handleLogout leaves isAuthenticated false, userData null,
\* error as it was, and the socket in the ref (Connecting or Open) asked
\* to close; when the close event is then handled the ref is null and the
\* status reads the disconnected message, and handling a close event
\* changes neither userData nor error.
C6_Logout ==
  /\ [](last.op = "logout" =>
          /\ ~isAuthenticated
          /\ userData = NoData
          /\ error = atLogout.error
          /\ atLogout.ws # 0 =>
               /\ sockets[atLogout.ws].closeRequests > 0
               /\ sockets[atLogout.ws].readyState = "CLOSING")
  /\ []((atLogout.done /\ last.op = "close") =>
          wsCurrent = 0 /\ statusMessage = MsgDisconnected)
  /\ [][last'.op = "close" => userData' = userData /\ error' = error]_vars

\* Data was shown at logout, and the close event of the socket has been
\* handled since.
C6_Witness ==
  /\ atLogout.done /\ atLogout.userData.t = "object" /\ atLogout.ws # 0
  /\ last.op = "close" /\ last.sock = atLogout.ws
  /\ wsCurrent = 0 /\ statusMessage = MsgDisconnected

\* C7: in a step of one page that starts and ends with isAuthenticated
\* true, and after which some socket has had an error or close event
\* handled, no WebSocket is constructed and a null ws.current stays null.
C7_NoReconnect ==
  [][ ( /\ isAuthenticated /\ isAuthenticated'
        /\ loads' = loads
        /\ \E c \in Socks :
             sockets'[c].errorEvents + sockets'[c].closeEvents > 0 )
      => /\ Len(sockets') = Len(sockets)
         /\ wsCurrent = 0 => wsCurrent' = 0 ]_vars

\* The server closed the channel while authenticated, and a later trigger
\* completion finds the ref still null.
C7_Witness ==
  /\ isAuthenticated /\ wsCurrent = 0
  /\ Len(sockets) = 1 /\ sockets[1].closeEvents = 1
  /\ last.op = "getDataDone"

\* C8: a mounted page has issued exactly one probe fetch; loading is true
\* until the probe completes and false from then on, however it ended; a
\* success leaves isAuthenticated equal to the returned value; a
\* non-success status, a transport failure or an unreadable body leaves
\* isAuthenticated false and sets an error string; and unless the probe
\* returned true the page constructs no WebSocket.
C8_ProbeOnce ==
  /\ probeIssued = IF page = "fresh" THEN 0 ELSE 1
  /\ loading <=> probe \in {"idle", "inflight"}
  /\ loading => ~isAuthenticated
  /\ last.op = "probe" =>
       /\ probe = "true" => isAuthenticated /\ error = Null
       /\ probe = "false" => ~isAuthenticated /\ error = Null
       /\ probe = "notok" => error = Str(ErrProbeStatus)
       /\ probe \in {"network", "badjson"} => error = Str(ErrProbeConnect)
  /\ probe # "true" =>
       ~isAuthenticated /\ Len(sockets) = 0 /\ wsCurrent = 0 /\ created = rises

\* The probe failed in transport and the login view has been used since.
C8_Witness ==
  /\ probe = "network" /\ ~loading /\ error = Str(ErrProbeConnect)
  /\ last.op = "login" /\ Len(sockets) = 0

\* C9 as stated: handleGetData first leaves userData and error null and
\* the status reading the requesting message; a completion with a success
\* status, whatever the body, changes neither error nor the status; a
\* completion with a non-success status or a transport failure sets error
\* and empties the status.
C9_Claim ==
  /\ [](last.op = "getData" =>
          userData = NoData /\ error = Null /\ statusMessage = MsgRequesting)
  /\ [][(last'.op = "getDataDone" /\ last'.out.kind = "ok") =>
          error' = error /\ statusMessage' = statusMessage]_vars
  /\ []((last.op = "getDataDone" /\ last.out.kind \in {"notok", "network"}) =>
          error # Null /\ statusMessage = "")

\* The message of the claim for a non-success body: detail.error when
\* detail is an object that has one, else detail when it is a string, else
\* the fallback.
C10_Message(body) ==
  CASE body.json = "object" /\ body.detail.t = "object"
         /\ body.detail.error # Absent -> Str(body.detail.error)
    [] body.json = "object" /\ body.detail.t = "string" -> body.detail
    [] OTHER -> Str(ErrTriggerFallback)

\* C10 as stated: a completion with a non-success status leaves error equal
\* to the message taken from the body, and never the message of the
\* unreachable backend, which is left for a transport failure.
C10_Claim ==
  (last.op = "getDataDone" /\ last.out.kind = "notok") =>
    /\ error = C10_Message(last.out.body)
    /\ error # Str(ErrTriggerSend)

\* The Fetch button is on the page and not disabled: the control panel is
\* rendered (lines 129-133) and the last render found the socket OPEN.
ReadyToFetch == ~loading /\ isAuthenticated /\ fetchEnabled

C12_CloseAfterLogout ==
  [][ (loads' = loads /\ atLogout'.done) =>
        /\ \A c \in 1..Len(sockets') : sockets'[c].closeEvents <= 1
        /\ Len(sockets') = Len(sockets)
        /\ last'.op = "close" => wsCurrent' = 0
        /\ wsCurrent' # wsCurrent =>
             /\ last'.op = "close" /\ last'.sock = wsCurrent
             /\ sockets[wsCurrent].closeEvents = 0
             /\ wsCurrent' = 0 ]_vars

\* Logout cancelled a Connecting socket; its error and then its close event
\* were handled, and the ref is null.
C12_Witness ==
  /\ atLogout.done /\ atLogout.readyState = "CONNECTING"
  /\ last.op = "close" /\ last.sock = atLogout.ws
  /\ sockets[atLogout.ws].errorEvents = 1
  /\ sockets[atLogout.ws].closeEvents = 1
  /\ wsCurrent = 0

\* The socket handleLogout found in the ref.
LogoutSocket == sockets[atLogout.ws]

\* Closing through the effect, from heap h, changed no socket's state and
\* not the ref.
CloseChangesNothing(h) ==
  LET g == RunEffect(FALSE, h)
  IN /\ g.ws = h.ws
     /\ Len(g.socks) = Len(h.socks)
     /\ \A c \in 1..Len(h.socks) :
          /\ g.socks[c].readyState = h.socks[c].readyState
          /\ g.socks[c].failed = h.socks[c].failed

\* C13: in every state, the effect run for isAuthenticated false changes
\* nothing when ws.current is null, and changes neither the ref nor any
\* socket's state when the socket in the ref is Closing or Closed; no
\* socket has more than one close event handled; and when handleLogout
\* found an Open socket, the cleanup and the body both called close() on
\* it, handleLogout left it Closing and not failed, and it has at most
\* one close event.
C13_CloseIdempotent ==
  /\ wsCurrent = 0 => RunEffect(FALSE, Heap) = Heap
  /\ (wsCurrent # 0 /\ sockets[wsCurrent].readyState \in {"CLOSING", "CLOSED"})
       => CloseChangesNothing(Heap)
  /\ \A c \in Socks : sockets[c].closeEvents <= 1
  /\ (atLogout.done /\ atLogout.readyState = "OPEN") =>
       /\ LogoutSocket.closeRequests = 2
       /\ LogoutSocket.closeEvents <= 1
       /\ last.op = "logout" =>
            LogoutSocket.readyState = "CLOSING" /\ ~LogoutSocket.failed

\* Logout closed an Open socket twice over, and its one close event was
\* handled.
C13_Witness ==
  /\ atLogout.done /\ atLogout.readyState = "OPEN"
  /\ LogoutSocket.closeRequests = 2
  /\ LogoutSocket.closeEvents = 1
  /\ wsCurrent = 0

\* C14: handleGetData leaves no data and no error behind it, and while a
\* trigger fetch is in flight the error shown was not set by the completion
\* of a trigger fetch issued before one that is still in flight.
C14_Claim ==
  /\ last.op = "getData" => (userData = NoData /\ error = Null)
  /\ triggers > 0 => errorYounger = 0

\* C15: every step in which onclose runs sets ws.current to null and
\* statusMessage to the disconnected message, and leaves userData, error,
\* isAuthenticated and loading as they were.
C15_CloseFrame ==
  [][ last'.op = "close" =>
        /\ wsCurrent' = 0
        /\ statusMessage' = MsgDisconnected
        /\ UNCHANGED << userData, error, isAuthenticated, loading >> ]_vars

\* The server closed the socket while data was shown: the data is still
\* shown after onclose, and the ref is null.
C15_Witness ==
  /\ last.op = "close" /\ isAuthenticated
  /\ userData # NoData /\ error = Null
  /\ wsCurrent = 0 /\ statusMessage = MsgDisconnected

\* C16: every step in which onerror runs sets error to the WebSocket error
\* message and leaves ws.current, the state of every socket, userData,
\* statusMessage, isAuthenticated and loading as they were; and, within a
\* page load, ws.current goes from a socket to null only in a step in which
\* onclose runs.
C16_ErrorFrame ==
  [][ /\ last'.op = "error" =>
           /\ error' = Str(ErrWebSocket)
           /\ \A c \in Socks : sockets'[c].readyState = sockets[c].readyState
           /\ Len(sockets') = Len(sockets)
           /\ UNCHANGED << wsCurrent, userData, statusMessage,
                           isAuthenticated, loading >>
      /\ (loads' = loads /\ wsCurrent # 0 /\ wsCurrent' = 0) =>
           last'.op = "close" ]_vars

\* onerror ran for the socket in the ref, which is still there: its close
\* event has not been handled yet.
C16_Witness ==
  /\ last.op = "error" /\ error = Str(ErrWebSocket)
  /\ wsCurrent = last.sock /\ wsCurrent # 0
  /\ sockets[wsCurrent].closeEvents = 0
  /\ userData # NoData

\* C17: in every state, the cleanup of the channel effect, were it to run
\* there, calls close() on the socket in ws.current when that socket is
\* Open, which makes it Closing, and otherwise touches nothing: not the
\* ref, and no socket that is Connecting, Closing, Closed or not in the
\* ref.  And where it did run before handleLogout's effect, a Connecting
\* socket got its one close() from the effect body alone, and with a null
\* ref no socket got any.
C17_CleanupClosesOpenOnly ==
  /\ LET h == EffectCleanup(Heap)
     IN /\ h.ws = wsCurrent
        /\ Len(h.socks) = Len(sockets)
        /\ \A c \in Socks :
             IF c = wsCurrent /\ sockets[c].readyState = "OPEN"
             THEN /\ h.socks[c].readyState = "CLOSING"
                  /\ h.socks[c].closeRequests = sockets[c].closeRequests + 1
             ELSE h.socks[c] = sockets[c]
  /\ (atLogout.done /\ atLogout.readyState = "CONNECTING") =>
       LogoutSocket.closeRequests = 1
  /\ (atLogout.done /\ atLogout.readyState = "none") =>
       \A c \in Socks : sockets[c].closeRequests = 0

\* handleLogout found a Connecting socket: the cleanup left it alone and
\* the effect body closed it.
C17_Witness ==
  /\ last.op = "logout" /\ atLogout.readyState = "CONNECTING"
  /\ LogoutSocket.closeRequests = 1
  /\ LogoutSocket.readyState = "CLOSING"

\* C18: within a page load, isAuthenticated goes from false to true only in
\* the step that completes the one probe fetch, which is then no longer in
\* flight; after handleLogout it is never true; and at most one WebSocket
\* is constructed.
C18_OneRisePerLoad ==
  [][ loads' = loads =>
        /\ (~isAuthenticated /\ isAuthenticated') =>
             /\ last'.op = "probe"
             /\ probe = "inflight" /\ probe' # "inflight"
        /\ atLogout.done => ~isAuthenticated'
        /\ Len(sockets') <= 1 ]_vars

\* Authenticated by the probe, then logged out: the page's only socket has
\* closed, and the probe's verdict is still the one recorded.
C18_Witness ==
  /\ atLogout.done /\ ~isAuthenticated /\ probe = "true"
  /\ Len(sockets) = 1 /\ sockets[1].closeEvents = 1
  /\ last.op = "getDataDone"

\* What the page shows of userData and error (lines 139, 155).
DataShown == userData # NoData
ErrorShown == error # Null

\* The errors onmessage can set, and the errors the probe can set.
ServerErrors == { OnMessageState(m).error : m \in Messages } \ { Null }
ProbeErrors == { Str(ErrProbeStatus), Str(ErrProbeConnect) }

\* C19 as stated: in every state, userData and error are not both present.
C19_Original == ~(DataShown /\ ErrorShown)

\* C19: userData and error are not both present right after onmessage, a
\* call of handleGetData or the probe's completion; and whenever both are
\* present, the error is not one reported in a message nor one of the
\* probe: it was set by onerror or by a failed trigger fetch while the data
\* was shown.
C19_DataAndError ==
  /\ last.op \in {"message", "getData", "probe"} => ~(DataShown /\ ErrorShown)
  /\ (DataShown /\ ErrorShown) => error \notin ServerErrors \cup ProbeErrors

\* The connection failed while data was shown: onerror set the error and
\* the data is still there.
C19_Witness ==
  /\ last.op = "error" /\ DataShown /\ error = Str(ErrWebSocket)

\* C20: every step in which the onclose of a socket runs finds that same
\* socket in ws.current and sets the ref to null, and leaves no socket of
\* the page Connecting or Open: no close event clears a ref that holds
\* another, newer socket.
C20_CloseClearsOwnHandle ==
  [][ last'.op = "close" =>
        /\ wsCurrent = last'.sock
        /\ wsCurrent' = 0
        /\ \A c \in 1..Len(sockets') :
             sockets'[c].readyState \notin {"CONNECTING", "OPEN"} ]_vars

\* The connection failed while authenticated: after onerror, the onclose of
\* the page's socket cleared the ref that held it.
C20_Witness ==
  /\ last.op = "close" /\ last.sock = 1 /\ wsCurrent = 0
  /\ isAuthenticated /\ ~atLogout.done
  /\ sockets[1].errorEvents = 1 /\ sockets[1].closeEvents = 1
====
